---- MODULE Spec2Model ----
(***************************************************************************)
(* Credential acquisition and league caching of mcp_espn_ff.               *)
(*                                                                         *)
(* The repository ships two variants of the server:                        *)
(*   - the modular server  (src/mcp_espn_ff/auth.py, espn_service.py,      *)
(*     tools.py): one process-wide CredentialManager, an asyncio lock      *)
(*     around the browser capture, and LeagueService with one cache;       *)
(*   - the single-file server (src/espn_fantasy_server.py): per-session    *)
(*     credentials and a per-session league cache in                       *)
(*     ESPNFantasyFootballAPI, and an authenticate tool that captures the  *)
(*     cookies itself.                                                     *)
(* A process runs one of them; the variable server says which.             *)
(*                                                                         *)
(* Specifications: Spec, the two servers under concurrent tool calls;      *)
(* SpecLog, the same with what they write to stderr recorded; SpecCM,      *)
(* CredentialManager.get and set on their own, every persist mode and a    *)
(* .env file; SpecMask, mask_secret on its own; SpecFair, the modular      *)
(* server under the fair scheduling of the event loop; SpecFn, the         *)
(* functions of the tools that have no state: session ids, error           *)
(* classification, error responses and the team_id check.                  *)
(*                                                                         *)
(* Python strings are sequences of one-character strings, so that          *)
(* formatting, prefix tests and masking are computed, not assumed.         *)
(* Tasks are asyncio coroutines: everything between two awaits is one      *)
(* atomic step.                                                            *)
(***************************************************************************)
EXTENDS Integers, Sequences, FiniteSets, TLC

VARIABLES
    server,      \* which variant this process runs
    env,         \* os.environ, restricted to the names the code reads
    memory,      \* CredentialManager._memory
    dotenv,      \* the .env file in the working directory
    locked,      \* _auth_lock._locked
    waiters,     \* _auth_lock._waiters, FIFO
    task,        \* per task: its position and its locals
    ret,         \* what the call that finished last returned or raised
    cache,       \* LeagueService._cache
    last_creds,  \* LeagueService._last_creds
    leagues,     \* ESPNFantasyFootballAPI.leagues
    credentials, \* ESPNFantasyFootballAPI.credentials
    session_to_league_keys, \* ESPNFantasyFootballAPI.session_to_league_keys
    built,       \* number of League objects constructed so far
    stderr,      \* the messages the last step wrote to stderr, or NotRead
    hist         \* history: what the claims need to remember of the past

vars == <<server, env, memory, dotenv, locked, waiters, task, ret, cache,
          last_creds, leagues, credentials, session_to_league_keys, built,
          stderr, hist>>

-----------------------------------------------------------------------------
(* Bounds *)

NumTasks == 2       \* concurrent tool calls in flight
MaxPolls == 2       \* cookie polls before the deadline has certainly passed
MaxCalls == 3       \* tool calls in one run
MaxLen == 6         \* length of the strings given to mask_secret
MaxTeams == 2       \* teams of a league

Tasks == 1..NumTasks

-----------------------------------------------------------------------------
(* Python values *)

\* Python's None; no string, since a string is a sequence of 1-character strings
None == <<"None">>

\* truthiness of an Optional[str]
Truthy(v) == v # None /\ v # <<>>

\* a or b
Or(a, b) == IF Truthy(a) THEN a ELSE b

\* "*" * n
RECURSIVE Stars(_)
Stars(n) == IF n <= 0 THEN <<>> ELSE <<"*">> \o Stars(n - 1)

\* s.startswith(prefix)
StartsWith(s, prefix) ==
    /\ Len(s) >= Len(prefix)
    /\ SubSeq(s, 1, Len(prefix)) = prefix

DigitChars == <<"0", "1", "2", "3", "4", "5", "6", "7", "8", "9">>

\* str(n) of a non-negative int, as the f-strings format it
RECURSIVE NatStr(_)
NatStr(n) ==
    IF n < 10 THEN <<DigitChars[n + 1]>>
    ELSE NatStr(n \div 10) \o <<DigitChars[(n % 10) + 1]>>

\* str(n) of an int
IntStr(n) == IF n < 0 THEN <<"-">> \o NatStr(0 - n) ELSE NatStr(n)

\* the cookie values a login can produce
Tok1 == <<"A", "E", "x", "7", "k", "2">>
Tok2 == <<"{", "9", "}">>
Tokens == {Tok1, Tok2}

-----------------------------------------------------------------------------
(* auth.py: mask_secret, CredentialManager *)

ShowLast == 4

\* a mutant of mask_secret: the first show_last characters are kept, not the last
mask_secret_head(value) ==
    IF ~Truthy(value) THEN <<>>
    ELSE IF Len(value) <= ShowLast THEN Stars(Len(value))
    ELSE SubSeq(value, 1, ShowLast) \o Stars(Len(value) - ShowLast)

\* mask_secret(value, show_last = 4)
mask_secret(value) ==
    IF ~Truthy(value) THEN <<>>
    ELSE IF Len(value) <= ShowLast THEN Stars(Len(value))
    ELSE Stars(Len(value) - ShowLast)
         \o SubSeq(value, Len(value) - ShowLast + 1, Len(value))

EnvNames == {"ESPN_S2", "espn_s2", "SWID", "swid"}

\* dict.get(key): None for a key the dict does not have
DictGet(d, k) == IF k \in DOMAIN d THEN d[k] ELSE None

\* d[key] = value
DictPut(d, k, v) == [x \in DOMAIN d \cup {k} |-> IF x = k THEN v ELSE d[x]]

\* CredentialManager.__init__
MemoryInit == [k \in {"ESPN_S2", "SWID"} |-> None]

\* self._memory.get(K) or env_value
MemoryPrecedence(mem, envv) == Or(mem, envv)

\* a mutant of IsValid: one token is enough
IsValidEither(espn_s2, swid) == Truthy(espn_s2) \/ Truthy(swid)

\* is_valid = bool(espn_s2) and bool(swid)
IsValid(espn_s2, swid) == Truthy(espn_s2) /\ Truthy(swid)

\* CredentialManager.get; last_checked (the wall clock) is not modelled
CMGet(mem, e) ==
    LET env_espn_s2 == Or(e["ESPN_S2"], e["espn_s2"])
        env_swid    == Or(e["SWID"], e["swid"])
        espn_s2     == MemoryPrecedence(DictGet(mem, "ESPN_S2"), env_espn_s2)
        swid        == MemoryPrecedence(DictGet(mem, "SWID"), env_swid)
        source      == IF Truthy(env_espn_s2) /\ Truthy(env_swid) THEN "process_env"
                       ELSE IF Truthy(espn_s2) /\ Truthy(swid) THEN "dot_env"
                       ELSE "none"
    IN  [espn_s2  |-> espn_s2,
         swid     |-> swid,
         source   |-> source,
         is_valid |-> IsValid(espn_s2, swid),
         masked   |-> [espn_s2 |-> mask_secret(espn_s2), SWID |-> mask_secret(swid)]]

PersistModes == {"memory", "env", "dot_env"}

\* the .env file does not exist; a file that exists is its text, a sequence
\* of characters
NoFile == <<"NoFile">>

NL == "\n"

\* the first position of a newline in text, 0 when it has none
FirstNL(text) ==
    LET at == {i \in 1..Len(text) : text[i] = NL}
    IN  IF at = {} THEN 0 ELSE CHOOSE i \in at : \A j \in at : i <= j

\* f.read().splitlines(), for "\n" line ends
RECURSIVE SplitLines(_)
SplitLines(text) ==
    IF text = <<>> THEN <<>>
    ELSE LET i == FirstNL(text)
         IN  IF i = 0 THEN <<text>>
             ELSE <<SubSeq(text, 1, i - 1)>> \o SplitLines(SubSeq(text, i + 1, Len(text)))

\* "\n".join(lines)
RECURSIVE JoinLines(_)
JoinLines(lines) ==
    IF lines = <<>> THEN <<>>
    ELSE IF Len(lines) = 1 THEN lines[1]
    ELSE lines[1] \o <<NL>> \o JoinLines(Tail(lines))

KeyS2 == <<"E", "S", "P", "N", "_", "S", "2">>
KeySWID == <<"S", "W", "I", "D">>

\* upsert, the helper inside _write_dotenv
upsert(lines, key, value) ==
    LET prefix == key \o <<"=">>
        found == \E i \in 1..Len(lines) : StartsWith(lines[i], prefix)
        new_lines == [i \in 1..Len(lines) |->
                        IF StartsWith(lines[i], prefix) THEN prefix \o value
                        ELSE lines[i]]
    IN  IF found THEN new_lines ELSE Append(new_lines, prefix \o value)

\* CredentialManager._write_dotenv: the text the file holds afterwards.
\* readOk = FALSE is the read that raises: the except clause sets lines = [].
write_dotenv(file, espn_s2, swid, readOk) ==
    LET lines == IF file # NoFile /\ readOk THEN SplitLines(file) ELSE <<>>
    IN  JoinLines(upsert(upsert(lines, KeyS2, espn_s2), KeySWID, swid)) \o <<NL>>

\* a mutant of WritesEnv: os.environ is written in every mode
WritesEnvAlways(persist_mode) == TRUE

\* if persist_mode in ("env", "dot_env")
WritesEnv(persist_mode) == persist_mode \in {"env", "dot_env"}

\* CredentialManager.set: the store afterwards, and whether the call raised
\* (open(path, "w") failing is the one exception that is not caught)
CMSet(mem, e, file, espn_s2, swid, persist_mode, readOk, writeOk) ==
    LET mem2 == DictPut(DictPut(mem, "espn_s2", espn_s2), "SWID", swid)
        e2   == IF WritesEnv(persist_mode)
                THEN [e EXCEPT !["espn_s2"] = espn_s2, !["SWID"] = swid]
                ELSE e
    IN  [memory |-> mem2,
         env    |-> e2,
         dotenv |-> IF persist_mode = "dot_env" /\ writeOk
                    THEN write_dotenv(file, espn_s2, swid, readOk) ELSE file,
         raised |-> persist_mode = "dot_env" /\ ~writeOk]

-----------------------------------------------------------------------------
(* espn_api.football.League, the external constructor *)

LeagueIds == {1, 11}
Years == {1}

\* a League object: what the constructor was given, and which construction it
\* was (id, the object's identity).  by is history: the session whose call
\* constructed it (None in the modular server, which has no sessions).
League(id, league_id, year, espn_s2, swid, by) ==
    [id |-> id, league_id |-> league_id, year |-> year,
     espn_s2 |-> espn_s2, swid |-> swid, by |-> by]

NoHandle == League(0, 0, 0, None, None, None)

\* {} : a dict with no key
EmptyDict == [k \in {} |-> None]

-----------------------------------------------------------------------------
(* espn_service.py: LeagueService *)

\* a mutant of CredsChanged: the cache is never cleared
CredsChangedNever(lc, current) == FALSE

\* a mutant of CredsChanged: the cache is cleared whenever a pair is remembered
CredsChangedRemembered(lc, current) == lc # None

\* self._last_creds is not None and self._last_creds != current_creds
CredsChanged(lc, current) == lc # None /\ lc # current

\* a mutant of CacheHit: every call constructs
CacheHitNever(c, key) == FALSE

\* key in self._cache
CacheHit(c, key) == key \in DOMAIN c

\* LeagueService.get_league after ensure_authenticated returned (espn_s2, swid):
\* no await follows, so the rest of the method is one step.
\* ok = FALSE is the League constructor raising; n is the number of Leagues built.
LSGetLeague(c, lc, espn_s2, swid, league_id, year, ok, n) ==
    LET current_creds == <<espn_s2, swid>>
        c1  == IF CredsChanged(lc, current_creds) THEN EmptyDict ELSE c
        key == <<league_id, year>>
        new == League(n + 1, league_id, year, espn_s2, swid, None)
    IN  IF CacheHit(c1, key)
        THEN [cache |-> c1, last_creds |-> current_creds, built |-> n,
              raised |-> FALSE, handle |-> c1[key]]
        ELSE IF ok
        THEN [cache |-> DictPut(c1, key, new), last_creds |-> current_creds,
              built |-> n + 1, raised |-> FALSE, handle |-> new]
        ELSE [cache |-> c1, last_creds |-> current_creds, built |-> n,
              raised |-> TRUE, handle |-> NoHandle]

-----------------------------------------------------------------------------
(* Tasks *)

\* a task that runs no call
IdleTask ==
    [pc |-> "idle", espn_s2 |-> None, swid |-> None, browser |-> "none",
     exc |-> "none",
     seen |-> <<None, None>>]  \* history: the first non-empty espn_s2 and
                               \* SWID values the browser has shown this call

\* nothing returned yet
NoRotation == [pending |-> FALSE, espn_s2 |-> None, swid |-> None, before |-> 0]

NoRet ==
    [kind |-> "none", espn_s2 |-> None, swid |-> None, is_valid |-> FALSE,
     handle |-> NoHandle, exc |-> "none", captured |-> None, session |-> None,
     after_set |-> NoRotation,
     after_logout |-> FALSE]  \* history: the call came right after logout of
                              \* the same session

\* ensure_authenticated returned (espn_s2 or "", swid or "", state);
\* captured is the pair authenticate_browser returned in this call, None when
\* the browser was not opened
RetAuth(g, captured) ==
    [NoRet EXCEPT !.kind = "returned",
                  !.espn_s2 = Or(g.espn_s2, <<>>), !.swid = Or(g.swid, <<>>),
                  !.is_valid = g.is_valid, !.captured = captured]

\* LeagueService.get_league returned handle h; after_set is history: the
\* CredentialManager.set that changed the pair since the get_league before, if any
RetHandle(h, captured, after_set) ==
    [NoRet EXCEPT !.kind = "returned", !.handle = h, !.captured = captured,
                  !.after_set = after_set]

\* ESPNFantasyFootballAPI.get_league(session, ...) returned handle h
RetSessionHandle(session, h) ==
    [NoRet EXCEPT !.kind = "returned", !.handle = h, !.session = session]

\* the single-file authenticate tool returned "Authentication successful"
RetStored(session, espn_s2, swid) ==
    [NoRet EXCEPT !.kind = "returned", !.espn_s2 = espn_s2, !.swid = swid,
                  !.session = session]

\* the call raised e, or the tool returned the failure message e
RetRaised(e) == [NoRet EXCEPT !.kind = "raised", !.exc = e]

\* the tasks inside a call
Pending == {p \in Tasks : task[p].pc # "idle"}

\* the tasks whose browser is open: launched and not yet closed
InBrowser == {p \in Tasks : task[p].browser = "open"}

-----------------------------------------------------------------------------
(* The browser driver *)

\* the cookie jar as context.cookies() returns it: at most two cookies
CookieNames == {"espn_s2", "SWID", "swid"}
Cookies == [name : CookieNames, value : Tokens \cup {<<>>}]
CookieLists == {<<>>} \cup {<<c>> : c \in Cookies}
                 \cup {<<c, d>> : c \in Cookies, d \in Cookies}

Both(f) == Truthy(f[1]) /\ Truthy(f[2])

\* how a polling loop ended: the locals, and the exception if one was raised
LoopEnd(f, exc) == [espn_s2 |-> f[1], swid |-> f[2], exc |-> exc]

-----------------------------------------------------------------------------
(* auth.py: authenticate_browser, the polling loop *)
\* a mutant of ScanCookies: every value of the cookie is taken, the last one stays
RECURSIVE ScanCookiesLast(_, _, _)
ScanCookiesLast(cookies, found_espn_s2, found_swid) ==
    IF cookies = <<>> THEN <<found_espn_s2, found_swid>>
    ELSE LET cookie == Head(cookies)
             s2 == IF cookie.name = "espn_s2" THEN cookie.value ELSE found_espn_s2
             sw == IF cookie.name = "SWID" THEN cookie.value ELSE found_swid
         IN  ScanCookiesLast(Tail(cookies), s2, sw)

\* the for loop of authenticate_browser over one cookie list: the found pair
RECURSIVE ScanCookies(_, _, _)
ScanCookies(cookies, found_espn_s2, found_swid) ==
    IF cookies = <<>> THEN <<found_espn_s2, found_swid>>
    ELSE LET cookie == Head(cookies)
             s2 == IF cookie.name = "espn_s2" /\ ~Truthy(found_espn_s2)
                   THEN cookie.value ELSE found_espn_s2
             sw == IF cookie.name = "SWID" /\ ~Truthy(found_swid)
                   THEN cookie.value ELSE found_swid
         IN  ScanCookies(Tail(cookies), s2, sw)

\* the value of the first cookie of the list that has this name and a
\* non-empty value, None when there is none
FirstIn(cookies, name) ==
    LET at == {i \in 1..Len(cookies) :
                 cookies[i].name = name /\ cookies[i].value # <<>>}
    IN  IF at = {} THEN None
        ELSE cookies[CHOOSE i \in at : \A j \in at : i <= j].value

\* history: the first non-empty values shown so far, after one more cookie list
SeenAfter(seen, cookies) ==
    <<IF seen[1] # None THEN seen[1] ELSE FirstIn(cookies, "espn_s2"),
      IF seen[2] # None THEN seen[2] ELSE FirstIn(cookies, "SWID")>>

\* how the loop of authenticate_browser ended: f holds the found pair and,
\* as history, the pair seen
PollEnd(f, exc) ==
    [espn_s2 |-> f[1], swid |-> f[2], exc |-> exc, seen |-> <<f[3], f[4]>>]

\* The ways while loop.time() < deadline ... can end, S being the found pairs
\* the loop may hold at its head and k the polls left before the deadline has
\* certainly passed.  The loop awaits only the browser and touches only its
\* locals, so it is computed as one function of what the browser shows:
\*   - the deadline has passed: the loop ends with what is found so far;
\*   - context.cookies() raises;
\*   - the jar is scanned: break with both found, or sleep and go round again.
RECURSIVE PollLoop(_, _)
PollLoop(S, k) ==
    LET deadline == {PollEnd(f, "none") : f \in S}
        scanned  == {ScanCookies(c, f[1], f[2]) \o SeenAfter(<<f[3], f[4]>>, c) :
                        c \in CookieLists, f \in S}
    IN  IF k = 0 \/ S = {} THEN deadline
        ELSE deadline
             \cup {PollEnd(f, "DriverError") : f \in S}
             \cup {PollEnd(f, "none") : f \in {g \in scanned : Both(g)}}
             \cup PollLoop({g \in scanned : ~Both(g)}, k - 1)

\* found_espn_s2 = None, found_swid = None, nothing seen, then the loop
LoopEnds == PollLoop({<<None, None, None, None>>}, MaxPolls)

-----------------------------------------------------------------------------
(* auth.py: _auth_lock, an asyncio.Lock *)

\* a mutant of LockFree: the lock is taken whether or not it is held
LockFreeAlways == TRUE

\* a mutant of LockedAfterExit: an exception leaves the lock held
LockedAfterError(exc) == exc # "none"

\* _auth_lock._locked once async with _auth_lock is left, by return or by an
\* exception exc
LockedAfterExit(exc) == FALSE

\* Lock.acquire returns at once: not locked and nobody is queued
LockFree == ~locked /\ waiters = <<>>

-----------------------------------------------------------------------------
(* History *)

NoEvent == [name |-> "none", session |-> None]

HistInit ==
    [calls    |-> 0,           \* the tool calls made so far
     captures |-> 0,           \* the captures that returned a pair since the
                               \* last moment no call was in flight
     returned |-> {},          \* the pairs ensure_authenticated returned since
     last_set |-> NoRotation,  \* the last CredentialManager.set(a, b)
     rotated  |-> NoRotation,  \* a CredentialManager.set that changed the pair,
                               \* not yet followed by a LeagueService.get_league
     event    |-> NoEvent]     \* the last ESPNFantasyFootballAPI method run

\* history after CredentialManager.set(a, b), g being what get returned before
HistSet(h, g, a, b) ==
    [h EXCEPT !.last_set = [pending |-> TRUE, espn_s2 |-> a, swid |-> b, before |-> 0],
              !.rotated = IF <<a, b>> # <<g.espn_s2, g.swid>>
                          THEN [pending |-> TRUE, espn_s2 |-> a, swid |-> b,
                                before |-> built]
                          ELSE @]

\* history after ensure_authenticated returned what get reported
HistReturned(h, g) ==
    [h EXCEPT !.returned = @ \cup {<<Or(g.espn_s2, <<>>), Or(g.swid, <<>>)>>}]

\* history at the start of a call
HistCall(h) ==
    IF Pending = {}
    THEN [h EXCEPT !.calls = @ + 1, !.captures = 0, !.returned = {}]
    ELSE [h EXCEPT !.calls = @ + 1]

-----------------------------------------------------------------------------
(* What is written to stderr: log_error of the modular server, the logger of
   espn_fantasy_server.py (a StreamHandler on sys.stderr).  A message is the
   sequence of the parts of its f-string: the literal pieces (text) and the
   interpolated values (value, as characters).  from tells whether the part
   was made by this code or is the text of an exception, str(e). *)

\* stderr when nobody reads the stream: the specifications that are not about
\* the messages start with it, and then no step records what it writes.
\* No message is empty, so this is not a set of messages.
NotRead == {<<>>}

\* a step that writes these messages, and no others, to stderr
Log(messages) == stderr' = IF stderr = NotRead THEN NotRead ELSE messages

Lit(text) == [text |-> text, value |-> <<>>, from |-> "code"]
Val(value) == [text |-> "", value |-> value, from |-> "code"]

\* str(x) of an Optional[str] inside an f-string
StrOf(x) == IF x = None THEN <<"N", "o", "n", "e">> ELSE x

\* str(e) of an exception that was raised with a fixed text, or by the
\* browser driver, which is never handed a token
ExcText(name) == <<[text |-> name, value |-> <<>>, from |-> "exception"]>>

\* str(e) of an exception raised by League(league_id=..., year=...,
\* espn_s2=..., swid=...).  The constructor belongs to the sports-data client;
\* what it puts into the text is its choice: its arguments are repeated in
\* the text (echo) or they are not.
LeagueErrorText(league_id, espn_s2, swid, echo) ==
    IF ~echo THEN ExcText("LeagueError")
    ELSE <<[text |-> "League ", value |-> IntStr(league_id), from |-> "exception"],
           [text |-> " espn_s2=", value |-> StrOf(espn_s2), from |-> "exception"],
           [text |-> " swid=", value |-> StrOf(swid), from |-> "exception"]>>

\* auth.py 134, 148, 160
MsgImportFailed == <<Lit("Playwright import failed: ")>> \o ExcText("ImportError")
MsgLaunchFailed ==
    <<Lit("Failed to launch Chromium. | Details: ")>> \o ExcText("DriverError")
MsgPleaseLogin == <<Lit("Please log into ESPN in the opened browser window...")>>

\* espn_service.py 27, espn_fantasy_server.py 166
MsgCreating(league_id, year) ==
    <<Lit("Creating new league instance for "), Val(IntStr(league_id)),
      Lit(", year "), Val(IntStr(year))>>

\* the except clause of a tool: tools.py 30 and 48, espn_fantasy_server.py 255
MsgToolError(op, text) ==
    <<Lit(IF op = "authenticate" THEN "Authentication error: "
          ELSE "Error retrieving league info: ")>> \o text

\* espn_fantasy_server.py 99, 117, 120, 128
MsgLaunching == <<Lit("Launching browser for ESPN login (combined auth)...")>>
MsgDetected(name) == <<Lit("Detected "), Lit(name), Lit(" cookie.")>>
MsgBrowserAuthError(text) == <<Lit("Browser auth error: ")>> \o text

\* espn_fantasy_server.py 170, 189 and 203, 190, 196, 239, 473
MsgErrorCreating(text) == <<Lit("Error creating league: ")>> \o text
MsgPurged(n, session_id) ==
    <<Lit("Purged "), Val(IntStr(n)),
      Lit(" cached league instance(s) for session "), Val(session_id)>>
MsgStored(session_id) == <<Lit("Stored credentials for session "), Val(session_id)>>
MsgCleared(session_id) == <<Lit("Cleared credentials for session "), Val(session_id)>>
MsgGetting(league_id, year) ==
    <<Lit("Getting league info for league "), Val(IntStr(league_id)),
      Lit(", year "), Val(IntStr(year))>>
MsgLoggingOut == <<Lit("Logging out...")>>

\* LeagueService.get_league and the tool around it: what a call writes that
\* found n League objects built, r being the result of LSGetLeague
LSLog(r, n, league_id, year, text) ==
    (IF r.raised \/ r.built # n THEN {MsgCreating(league_id, year)} ELSE {})
    \cup (IF r.raised THEN {MsgToolError("get_league", text)} ELSE {})

\* the get_league_info tool and api.get_league, r being the result of
\* APIGetLeague
APILog(r, n, league_id, year, text) ==
    {MsgGetting(league_id, year)}
    \cup (IF r.raised \/ r.built # n THEN {MsgCreating(league_id, year)} ELSE {})
    \cup (IF r.raised
          THEN {MsgErrorCreating(text), MsgToolError("get_league", text)}
          ELSE {})

\* store_credentials and clear_credentials: keys is the popped index entry
PurgeLog(keys, session_id) ==
    IF keys # {} THEN {MsgPurged(Cardinality(keys), session_id)} ELSE {}

-----------------------------------------------------------------------------
(* The modular server: tools.py -> ensure_authenticated -> authenticate_browser *)

\* The callers of ensure_authenticated: the authenticate tool and
\* LeagueService.get_league (under every data tool).  Both call it with its
\* defaults.  A call's arguments are read only after ensure_authenticated has
\* got its pair, so they are drawn there.
Ops == {"authenticate", "get_league"}

\* persist_mode of ensure_authenticated when the caller names none
DefaultPersistMode == "env"

\* The end of a call whose ensure_authenticated returned g (the result of
\* CredentialManager.get): authenticate returns the pair, get_league goes on to
\* the cache.  h is the history so far.
Complete(p, op, g, captured, h) ==
    /\ task' = [task EXCEPT ![p] = IdleTask]
    /\ IF op # "get_league"
       THEN /\ ret' = RetAuth(g, captured)
            /\ hist' = HistReturned(h, g)
            /\ Log({})
            /\ UNCHANGED <<cache, last_creds, built>>
       ELSE \E league_id \in LeagueIds, year \in Years, ok \in BOOLEAN,
               echo \in BOOLEAN :
              LET espn_s2 == Or(g.espn_s2, <<>>)
                  swid == Or(g.swid, <<>>)
                  r == LSGetLeague(cache, last_creds, espn_s2, swid,
                                   league_id, year, ok, built)
              IN  /\ echo => r.raised
                  /\ Log(LSLog(r, built, league_id, year,
                            LeagueErrorText(league_id, espn_s2, swid, echo)))
                  /\ cache' = r.cache
                  /\ last_creds' = r.last_creds
                  /\ built' = r.built
                  /\ ret' = IF r.raised THEN RetRaised("LeagueError")
                            ELSE RetHandle(r.handle, captured, h.rotated)
                  /\ hist' = [HistReturned(h, g) EXCEPT !.rotated = NoRotation]

\* a mutant of NeedsCapture: the browser is opened whatever get reports
NeedsCaptureAlways(g) == TRUE

\* ensure_authenticated: if state.is_valid: return ...
NeedsCapture(g) == ~g.is_valid

\* A call starts and runs up to its first await.
\* With valid credentials ensure_authenticated returns without awaiting anything,
\* so the whole call is this one step.  Otherwise authenticate_browser imports
\* playwright (which may fail) and acquires _auth_lock, at once or by queueing.
Call(p) ==
    /\ server = "modular"
    /\ task[p].pc = "idle"
    /\ hist.calls < MaxCalls
    /\ LET g == CMGet(memory, env)
           h == HistCall(hist)
       IN  IF ~NeedsCapture(g)
           THEN /\ \E op \in Ops : Complete(p, op, g, None, h)
                /\ UNCHANGED <<locked, waiters>>
           ELSE /\ \E importOk \in BOOLEAN :
                     IF ~importOk
                     THEN /\ task' = [task EXCEPT ![p] = IdleTask]
                          /\ ret' = RetRaised("RuntimeError")
                          /\ hist' = h
                          /\ \E op \in Ops :
                               Log({MsgImportFailed,
                                    MsgToolError(op, ExcText("RuntimeError"))})
                          /\ UNCHANGED <<locked, waiters>>
                     ELSE /\ ret' = ret
                          /\ hist' = h
                          /\ Log({})
                          /\ IF LockFree
                             THEN /\ locked' = TRUE
                                  /\ task' = [task EXCEPT ![p].pc = "have_lock"]
                                  /\ UNCHANGED waiters
                             ELSE /\ waiters' = Append(waiters, p)
                                  /\ task' = [task EXCEPT ![p].pc = "wait_lock"]
                                  /\ UNCHANGED locked
                /\ UNCHANGED <<cache, last_creds, built>>
    /\ UNCHANGED <<server, env, memory, dotenv, leagues, credentials,
                   session_to_league_keys>>

\* a mutant of Woken: release wakes nobody
WokenNever(p) == FALSE

\* Lock.release sets the future of the first waiter of _waiters
Woken(p) == waiters # <<>> /\ Head(waiters) = p

\* Lock.release woke the first waiter: it takes the lock
LockWake(p) ==
    /\ server = "modular"
    /\ task[p].pc = "wait_lock"
    /\ ~locked
    /\ Woken(p)
    /\ locked' = TRUE
    /\ waiters' = Tail(waiters)
    /\ task' = [task EXCEPT ![p].pc = "have_lock"]
    /\ Log({})
    /\ UNCHANGED <<server, env, memory, dotenv, ret, cache, last_creds, leagues,
                   credentials, session_to_league_keys, built, hist>>

\* async_playwright() started and p.chromium.launch returned or raised
Launch(p) ==
    /\ server = "modular"
    /\ task[p].pc = "have_lock"
    /\ \E launchOk \in BOOLEAN :
         /\ task' = [task EXCEPT ![p] =
                      IF launchOk THEN [@ EXCEPT !.pc = "launched", !.browser = "open"]
                      ELSE [@ EXCEPT !.pc = "stopping", !.exc = "RuntimeError"]]
         /\ Log(IF launchOk THEN {} ELSE {MsgLaunchFailed})
    /\ UNCHANGED <<server, env, memory, dotenv, locked, waiters, ret, cache,
                   last_creds, leagues, credentials, session_to_league_keys, built, hist>>

\* browser.new_context, context.new_page and page.goto returned, or one raised:
\* they stand outside the try, so browser.close() is not reached
Setup(p) ==
    /\ server = "modular"
    /\ task[p].pc = "launched"
    /\ \E setupOk \in BOOLEAN :
         /\ task' = [task EXCEPT ![p] =
                      IF setupOk THEN [@ EXCEPT !.pc = "polling"]
                      ELSE [@ EXCEPT !.pc = "stopping", !.exc = "DriverError"]]
         /\ Log(IF setupOk THEN {MsgPleaseLogin} ELSE {})
    /\ UNCHANGED <<server, env, memory, dotenv, locked, waiters, ret, cache,
                   last_creds, leagues, credentials, session_to_league_keys, built, hist>>

\* the polling loop runs to its end; the finally clause comes next
Poll(p) ==
    /\ server = "modular"
    /\ task[p].pc = "polling"
    /\ \E e \in LoopEnds :
         task' = [task EXCEPT ![p] =
                    [@ EXCEPT !.pc = "closing", !.espn_s2 = e.espn_s2,
                              !.swid = e.swid, !.exc = e.exc, !.seen = e.seen]]
    /\ Log({})
    /\ UNCHANGED <<server, env, memory, dotenv, locked, waiters, ret, cache,
                   last_creds, leagues, credentials, session_to_league_keys, built, hist>>

\* finally: await browser.close(); then an exception of the loop goes on, or
\* the timeout check raises, and the locals are gone
Close(p) ==
    /\ server = "modular"
    /\ task[p].pc = "closing"
    /\ LET found == <<task[p].espn_s2, task[p].swid>>
           exc == IF task[p].exc # "none" THEN task[p].exc
                  ELSE IF ~Both(found) THEN "TimeoutError" ELSE "none"
       IN  task' = [task EXCEPT ![p] =
                      IF exc # "none"
                      THEN [IdleTask EXCEPT !.pc = "stopping", !.browser = "closed",
                                            !.exc = exc,
                                            !.seen = IF exc = "TimeoutError"
                                                     THEN task[p].seen ELSE @]
                      ELSE [@ EXCEPT !.pc = "stopping", !.browser = "closed"]]
    /\ Log({})
    /\ UNCHANGED <<server, env, memory, dotenv, locked, waiters, ret, cache,
                   last_creds, leagues, credentials, session_to_league_keys, built, hist>>

\* async_playwright() has stopped and _auth_lock is released.  With an
\* exception the call ends; otherwise ensure_authenticated stores the pair,
\* reads it back and returns, and the call runs to its end: no await is left.
Exit(p) ==
    /\ server = "modular"
    /\ task[p].pc = "stopping"
    /\ locked' = LockedAfterExit(task[p].exc)
    /\ UNCHANGED waiters
    /\ IF task[p].exc # "none"
       THEN /\ task' = [task EXCEPT ![p] = IdleTask]
            /\ ret' = RetRaised(task[p].exc)
            /\ \E op \in Ops : Log({MsgToolError(op, ExcText(task[p].exc))})
            /\ UNCHANGED <<env, memory, dotenv, cache, last_creds, built, hist>>
       ELSE \E op \in Ops, mode \in {DefaultPersistMode},
               readOk \in BOOLEAN, writeOk \in BOOLEAN :
            /\ mode # "dot_env" => readOk /\ writeOk
            /\ writeOk \/ readOk
            /\ LET found == <<task[p].espn_s2, task[p].swid>>
                   r  == CMSet(memory, env, dotenv, found[1], found[2], mode,
                               readOk, writeOk)
                   h  == HistSet([hist EXCEPT !.captures = @ + 1],
                                 CMGet(memory, env), found[1], found[2])
               IN  /\ memory' = r.memory
                   /\ env' = r.env
                   /\ dotenv' = r.dotenv
                   /\ IF r.raised
                      THEN /\ task' = [task EXCEPT ![p] = IdleTask]
                           /\ ret' = RetRaised("OSError")
                           /\ hist' = h
                           /\ Log({MsgToolError(op, ExcText("OSError"))})
                           /\ UNCHANGED <<cache, last_creds, built>>
                      ELSE Complete(p, op, CMGet(r.memory, r.env), found, h)
    /\ UNCHANGED <<server, leagues, credentials, session_to_league_keys>>

-----------------------------------------------------------------------------
(* espn_fantasy_server.py: ESPNFantasyFootballAPI *)

SessA == <<"a">>
SessColon == <<"a", ":", "1">>

\* the session ids the tools are called with, after _resolve_session_id
Sessions == {SessA, SessColon}

\* a mutant of CacheKey: the session is left out of the key
CacheKeyNoSession(session_id, league_id, year) ==
    IntStr(league_id) \o <<":">> \o IntStr(year)

\* key = f"{session_id}:{league_id}:{year}"
CacheKey(session_id, league_id, year) ==
    session_id \o <<":">> \o IntStr(league_id) \o <<":">> \o IntStr(year)

\* a mutant of PurgedKeys: every cached league is purged, whose ever it is
PurgedKeysAll(index, lg, session_id) == DOMAIN lg

\* keys = self.session_to_league_keys.pop(session_id, set())
PurgedKeys(index, lg, session_id) ==
    IF session_id \in DOMAIN index THEN index[session_id] ELSE {}

\* d.pop(key, None), del d[key]
DictDrop(d, ks) == [k \in DOMAIN d \ ks |-> d[k]]

\* a mutant of IndexAdd: the key set of the session is started anew
IndexAddAlone(index, session_id, cache_key) ==
    DictPut(index, session_id, {cache_key})

\* get_league: keys = self.session_to_league_keys.get(session_id), a new set
\* when there is none; keys.add(cache_key)
IndexAdd(index, session_id, cache_key) ==
    DictPut(index, session_id,
            (IF session_id \in DOMAIN index THEN index[session_id] ELSE {})
            \cup {cache_key})

\* ESPNFantasyFootballAPI.get_league: the cache and the index afterwards, and
\* the handle returned; ok = FALSE is the League constructor raising, which
\* leaves both unchanged; n is the number of Leagues built
APIGetLeague(lg, creds, index, session_id, league_id, year, ok, n) ==
    LET cache_key == CacheKey(session_id, league_id, year)
        espn_s2 == IF session_id \in DOMAIN creds THEN creds[session_id].espn_s2 ELSE None
        swid    == IF session_id \in DOMAIN creds THEN creds[session_id].swid ELSE None
        hit     == cache_key \in DOMAIN lg
        lg1     == IF hit THEN lg
                   ELSE DictPut(lg, cache_key,
                                League(n + 1, league_id, year, espn_s2, swid, session_id))
    IN  IF ~hit /\ ~ok
        THEN [leagues |-> lg, index |-> index, built |-> n, raised |-> TRUE,
              handle |-> NoHandle]
        ELSE [leagues |-> lg1,
              index   |-> IndexAdd(index, session_id, cache_key),
              built   |-> IF hit THEN n ELSE n + 1,
              raised  |-> FALSE,
              handle  |-> lg1[cache_key]]

\* a mutant of APIStoreCredentials: the pair is stored, the cache is kept
APIStoreNoPurge(lg, creds, index, session_id, espn_s2, swid) ==
    [leagues     |-> lg,
     credentials |-> DictPut(creds, session_id, [espn_s2 |-> espn_s2, swid |-> swid]),
     index       |-> index]

\* ESPNFantasyFootballAPI.store_credentials
APIStoreCredentials(lg, creds, index, session_id, espn_s2, swid) ==
    [leagues     |-> DictDrop(lg, PurgedKeys(index, lg, session_id)),
     credentials |-> DictPut(creds, session_id, [espn_s2 |-> espn_s2, swid |-> swid]),
     index       |-> DictDrop(index, {session_id})]

\* ESPNFantasyFootballAPI.clear_credentials
APIClearCredentials(lg, creds, index, session_id) ==
    [leagues     |-> DictDrop(lg, PurgedKeys(index, lg, session_id)),
     credentials |-> DictDrop(creds, {session_id}),
     index       |-> DictDrop(index, {session_id})]

-----------------------------------------------------------------------------
(* espn_fantasy_server.py: _capture_cookies_via_browser, the authenticate tool *)

\* (c.get("name") or "").upper()
UpperName(name) ==
    CASE name = "espn_s2" -> "ESPN_S2"
      [] name = "swid"    -> "SWID"
      [] OTHER            -> name

\* the for loop of _capture_cookies_via_browser over one cookie list
RECURSIVE SFScanCookies(_, _, _)
SFScanCookies(cookies, espn_s2_value, swid_value) ==
    IF cookies = <<>> THEN <<espn_s2_value, swid_value>>
    ELSE LET c == Head(cookies)
             name == UpperName(c.name)
             s2 == IF name = "ESPN_S2" /\ ~Truthy(espn_s2_value)
                   THEN c.value ELSE espn_s2_value
             sw == IF name = "SWID" /\ ~Truthy(swid_value)
                   THEN c.value ELSE swid_value
         IN  SFScanCookies(Tail(cookies), s2, sw)

\* The ways while time.time() < deadline and (espn_s2_value is None or
\* swid_value is None) can end, S being the value pairs the loop may hold at
\* its head and k the polls left before the deadline has certainly passed
RECURSIVE SFPollLoop(_, _)
SFPollLoop(S, k) ==
    LET open    == {f \in S : f[1] = None \/ f[2] = None}
        ended   == {LoopEnd(f, "none") : f \in S}
        scanned == {SFScanCookies(c, f[1], f[2]) : c \in CookieLists, f \in open}
    IN  IF k = 0 \/ open = {} THEN ended
        ELSE ended
             \cup {LoopEnd(f, "DriverError") : f \in open}
             \cup {LoopEnd(f, "none") : f \in {g \in scanned : Both(g)}}
             \cup SFPollLoop({g \in scanned : ~Both(g)}, k - 1)

\* espn_s2_value = None, swid_value = None, then the loop
SFLoopEnds == SFPollLoop({<<None, None>>}, MaxPolls)

\* a mutant of CaptureFailed: one cookie is enough
CaptureFailedBoth(s2, sw) == ~Truthy(s2) /\ ~Truthy(sw)

\* the authenticate tool: if not s2 or not sw
CaptureFailed(s2, sw) == ~Truthy(s2) \/ ~Truthy(sw)

\* The authenticate tool starts: _capture_cookies_via_browser opens
\* async_playwright().  No lock is taken.
SFCall(p) ==
    /\ server = "single_file"
    /\ task[p].pc = "idle"
    /\ hist.calls < MaxCalls
    /\ task' = [task EXCEPT ![p].pc = "sf_start"]
    /\ hist' = HistCall(hist)
    /\ Log({MsgLaunching})
    /\ UNCHANGED <<server, env, memory, dotenv, locked, waiters, ret, cache,
                   last_creds, leagues, credentials, session_to_league_keys, built>>

\* p.chromium.launch returned or raised; every exception inside the function
\* ends in except Exception: return None, None
SFLaunch(p) ==
    /\ server = "single_file"
    /\ task[p].pc = "sf_start"
    /\ \E launchOk \in BOOLEAN :
         task' = [task EXCEPT ![p] =
                    IF launchOk THEN [@ EXCEPT !.pc = "sf_launched", !.browser = "open"]
                    ELSE [@ EXCEPT !.pc = "sf_stopping", !.exc = "DriverError"]]
    /\ Log({})
    /\ UNCHANGED <<server, env, memory, dotenv, locked, waiters, ret, cache,
                   last_creds, leagues, credentials, session_to_league_keys, built, hist>>

\* browser.new_context, context.new_page and page.goto returned, or one raised
SFSetup(p) ==
    /\ server = "single_file"
    /\ task[p].pc = "sf_launched"
    /\ \E setupOk \in BOOLEAN :
         task' = [task EXCEPT ![p] =
                    IF setupOk THEN [@ EXCEPT !.pc = "sf_polling"]
                    ELSE [@ EXCEPT !.pc = "sf_stopping", !.exc = "DriverError"]]
    /\ Log({})
    /\ UNCHANGED <<server, env, memory, dotenv, locked, waiters, ret, cache,
                   last_creds, leagues, credentials, session_to_league_keys, built, hist>>

\* the polling loop runs to its end; an exception skips browser.close()
SFPoll(p) ==
    /\ server = "single_file"
    /\ task[p].pc = "sf_polling"
    /\ \E e \in SFLoopEnds :
         /\ task' = [task EXCEPT ![p] =
                      IF e.exc # "none"
                      THEN [@ EXCEPT !.pc = "sf_stopping", !.exc = e.exc]
                      ELSE [@ EXCEPT !.pc = "sf_closing", !.espn_s2 = e.espn_s2,
                                     !.swid = e.swid]]
         /\ Log((IF e.espn_s2 # None THEN {MsgDetected("ESPN_S2")} ELSE {})
                \cup (IF e.swid # None THEN {MsgDetected("SWID")} ELSE {}))
    /\ UNCHANGED <<server, env, memory, dotenv, locked, waiters, ret, cache,
                   last_creds, leagues, credentials, session_to_league_keys, built, hist>>

\* The capture returns and the tool call ends; nothing is awaited in between
\* but the browser driver.  After the loop: await browser.close(), return the
\* pair; after an exception: return None, None.  Either way async_playwright()
\* stops.  Then authenticate stores a pair of two non-empty values under its
\* session, or reports the failure.
SFExit(p) ==
    /\ server = "single_file"
    /\ task[p].pc \in {"sf_closing", "sf_stopping"}
    /\ task' = [task EXCEPT ![p] = IdleTask]
    /\ LET s2 == IF task[p].exc # "none" THEN None ELSE task[p].espn_s2
           sw == IF task[p].exc # "none" THEN None ELSE task[p].swid
       IN  IF CaptureFailed(s2, sw)
           THEN /\ ret' = RetRaised("Authentication failed")
                /\ Log(IF task[p].exc # "none"
                       THEN {MsgBrowserAuthError(ExcText(task[p].exc))}
                       ELSE {})
                /\ UNCHANGED <<leagues, credentials, session_to_league_keys, hist>>
           ELSE \E sid \in Sessions :
                  LET r == APIStoreCredentials(leagues, credentials,
                                               session_to_league_keys, sid, s2, sw)
                  IN  /\ leagues' = r.leagues
                      /\ credentials' = r.credentials
                      /\ session_to_league_keys' = r.index
                      /\ ret' = RetStored(sid, s2, sw)
                      /\ Log(PurgeLog(PurgedKeys(session_to_league_keys,
                                                  leagues, sid), sid)
                             \cup {MsgStored(sid)})
                      /\ hist' = [hist EXCEPT !.event =
                                    [name |-> "store_credentials", session |-> sid]]
    /\ UNCHANGED <<server, env, memory, dotenv, locked, waiters, cache, last_creds,
                   built>>

\* a data tool: api.get_league(session, league_id, year), no await in it
SFGetLeague ==
    /\ server = "single_file"
    /\ hist.calls < MaxCalls
    /\ \E sid \in Sessions, league_id \in LeagueIds, year \in Years,
          ok \in BOOLEAN, echo \in BOOLEAN :
         LET r == APIGetLeague(leagues, credentials, session_to_league_keys,
                               sid, league_id, year, ok, built)
             espn_s2 == IF sid \in DOMAIN credentials
                        THEN credentials[sid].espn_s2 ELSE None
             swid == IF sid \in DOMAIN credentials
                     THEN credentials[sid].swid ELSE None
         IN  /\ echo => r.raised
             /\ Log(APILog(r, built, league_id, year,
                        LeagueErrorText(league_id, espn_s2, swid, echo)))
             /\ leagues' = r.leagues
             /\ session_to_league_keys' = r.index
             /\ built' = r.built
             /\ ret' = IF r.raised THEN RetRaised("LeagueError")
                       ELSE [RetSessionHandle(sid, r.handle) EXCEPT
                               !.after_logout =
                                   (hist.event = [name |-> "clear_credentials",
                                                  session |-> sid])]
             /\ hist' = [hist EXCEPT !.calls = @ + 1,
                                     !.event = [name |-> "get_league", session |-> sid]]
    /\ UNCHANGED <<server, env, memory, dotenv, locked, waiters, task, cache,
                   last_creds, credentials>>

\* the logout tool returned "Authentication credentials have been cleared."
RetCleared(session) == [NoRet EXCEPT !.kind = "returned", !.session = session]

\* the logout tool: api.clear_credentials(session)
SFLogout ==
    /\ server = "single_file"
    /\ hist.calls < MaxCalls
    /\ \E sid \in Sessions :
         LET r == APIClearCredentials(leagues, credentials, session_to_league_keys, sid)
         IN  /\ leagues' = r.leagues
             /\ credentials' = r.credentials
             /\ session_to_league_keys' = r.index
             /\ ret' = RetCleared(sid)
             /\ Log({MsgLoggingOut}
                    \cup (IF sid \in DOMAIN credentials
                          THEN {MsgCleared(sid)} ELSE {})
                    \cup PurgeLog(PurgedKeys(session_to_league_keys,
                                             leagues, sid), sid))
             /\ hist' = [hist EXCEPT !.calls = @ + 1,
                                     !.event = [name |-> "clear_credentials",
                                                session |-> sid]]
    /\ UNCHANGED <<server, env, memory, dotenv, locked, waiters, task, cache,
                   last_creds, built>>

-----------------------------------------------------------------------------

EnvUnset == [n \in EnvNames |-> None]

\* the process environment the server is started in
EnvInits ==
    { EnvUnset,
      [EnvUnset EXCEPT !["ESPN_S2"] = Tok1, !["SWID"] = Tok2],
      [EnvUnset EXCEPT !["ESPN_S2"] = Tok1],
      [EnvUnset EXCEPT !["espn_s2"] = Tok2, !["swid"] = Tok1],
      [EnvUnset EXCEPT !["ESPN_S2"] = <<>>, !["SWID"] = Tok2] }

InitServer ==
    /\ server \in {"modular", "single_file"}
    /\ IF server = "modular" THEN env \in EnvInits ELSE env = EnvUnset
    /\ dotenv = NoFile
    /\ memory = MemoryInit
    /\ locked = FALSE
    /\ waiters = <<>>
    /\ task = [p \in Tasks |-> IdleTask]
    /\ ret = NoRet
    /\ cache = EmptyDict
    /\ last_creds = None
    /\ leagues = EmptyDict
    /\ credentials = EmptyDict
    /\ session_to_league_keys = EmptyDict
    /\ built = 0
    /\ hist = HistInit

Init == InitServer /\ stderr = NotRead

\* the same server with stderr read
InitLog == InitServer /\ stderr = {}

Next ==
    \/ \E p \in Tasks : Call(p)
    \/ \E p \in Tasks : LockWake(p)
    \/ \E p \in Tasks : Launch(p)
    \/ \E p \in Tasks : Setup(p)
    \/ \E p \in Tasks : Poll(p)
    \/ \E p \in Tasks : Close(p)
    \/ \E p \in Tasks : Exit(p)
    \/ \E p \in Tasks : SFCall(p)
    \/ \E p \in Tasks : SFLaunch(p)
    \/ \E p \in Tasks : SFSetup(p)
    \/ \E p \in Tasks : SFPoll(p)
    \/ \E p \in Tasks : SFExit(p)
    \/ SFGetLeague
    \/ SFLogout

Spec == Init /\ [][Next]_vars

SpecLog == InitLog /\ [][Next]_vars

-----------------------------------------------------------------------------
(* The modular server under fair scheduling.  The asyncio event loop runs
   every coroutine that is ready, and the browser driver's calls are taken to
   return, so each step of a call in flight is taken once it can be; nothing
   obliges a client to make a call. *)

InitModular == InitServer /\ server = "modular" /\ stderr = NotRead

NextModular ==
    \/ \E p \in Tasks : Call(p)
    \/ \E p \in Tasks : LockWake(p)
    \/ \E p \in Tasks : Launch(p)
    \/ \E p \in Tasks : Setup(p)
    \/ \E p \in Tasks : Poll(p)
    \/ \E p \in Tasks : Close(p)
    \/ \E p \in Tasks : Exit(p)

\* the next step of the call task p is in, short of the last one; its
\* position allows one of them
Resume(p) ==
    \/ LockWake(p)
    \/ Launch(p)
    \/ Setup(p)
    \/ Poll(p)
    \/ Close(p)

\* Weak fairness of every step of a call in flight.  For the last step it is
\* written out: Exit(p) can be taken exactly while p is at "stopping", and it
\* is the one step that moves p on from there, so WF_vars(Exit(p)) says that p
\* is not at "stopping" for ever.
Fairness ==
    \A p \in Tasks : WF_vars(Resume(p)) /\ []<>(task[p].pc # "stopping")

SpecFair == InitModular /\ [][NextModular]_vars /\ Fairness

-----------------------------------------------------------------------------
(* auth.py: CredentialManager used on its own, as get_credential_manager()    *)
(* hands it out: any sequence of get and set calls, from any environment and *)
(* any .env file.                                                            *)

\* what an environment variable can hold: unset, empty, or a token
CMValues == {None, <<>>, Tok1, Tok2}

CMEnvs == [EnvNames -> CMValues]

LineOther == <<"A", "=", "1">>
LineBlank == <<>>
LineS2Old == KeyS2 \o <<"=", "o", "l", "d">>
LineSWIDOld == KeySWID \o <<"=", "y">>
LineSWIDOlder == KeySWID \o <<"=", "z">>
LineExport == <<"x">> \o KeySWID \o <<"=", "1">>

\* the .env file before the first call: missing, empty, without the keys, with
\* both keys and no final newline, with one key twice and a blank line, and
\* with a line that holds a key but does not start with it
CMFiles ==
    { NoFile,
      <<>>,
      JoinLines(<<LineOther>>) \o <<NL>>,
      JoinLines(<<LineS2Old, LineOther, LineSWIDOld>>),
      JoinLines(<<LineOther, LineSWIDOld, LineBlank, LineSWIDOlder>>) \o <<NL>>,
      JoinLines(<<LineExport, LineOther>>) \o <<NL>> }

\* everything but the CredentialManager is at rest
Quiet ==
    /\ locked = FALSE
    /\ waiters = <<>>
    /\ task = [p \in Tasks |-> IdleTask]
    /\ cache = EmptyDict
    /\ last_creds = None
    /\ leagues = EmptyDict
    /\ credentials = EmptyDict
    /\ session_to_league_keys = EmptyDict
    /\ built = 0
    /\ stderr = NotRead
    /\ hist = HistInit

InitCM ==
    /\ server = "credential_manager"
    /\ env \in CMEnvs
    /\ dotenv \in CMFiles
    /\ memory = MemoryInit
    /\ ret = NoRet
    /\ Quiet

\* cm.get() returned
CMGetCall ==
    /\ server = "credential_manager"
    /\ LET g == CMGet(memory, env)
       IN  ret' = [kind |-> "get", espn_s2 |-> g.espn_s2, swid |-> g.swid,
                   source |-> g.source, is_valid |-> g.is_valid, masked |-> g.masked]
    /\ UNCHANGED <<server, env, memory, dotenv, locked, waiters, task, cache,
                   last_creds, leagues, credentials, session_to_league_keys, built,
                   stderr, hist>>

\* cm.set(espn_s2, swid, persist_mode) returned or raised; before is the .env
\* file as the call found it
CMSetCall ==
    /\ server = "credential_manager"
    /\ \E espn_s2 \in Tokens, swid \in Tokens, persist_mode \in PersistModes,
          readOk \in BOOLEAN, writeOk \in BOOLEAN :
         /\ (persist_mode # "dot_env" \/ dotenv = NoFile) => readOk
         /\ persist_mode # "dot_env" => writeOk
         /\ LET r == CMSet(memory, env, dotenv, espn_s2, swid, persist_mode,
                           readOk, writeOk)
            IN  /\ memory' = r.memory
                /\ env' = r.env
                /\ dotenv' = r.dotenv
                /\ ret' = [kind |-> "set", espn_s2 |-> espn_s2, swid |-> swid,
                           persist_mode |-> persist_mode, readOk |-> readOk,
                           raised |-> r.raised, before |-> dotenv]
    /\ UNCHANGED <<server, locked, waiters, task, cache, last_creds, leagues,
                   credentials, session_to_league_keys, built, stderr, hist>>

\* ensure_authenticated(persist_mode=...) returned or raised.  With a valid
\* stored pair it returns at once; otherwise authenticate_browser returns a
\* pair of two non-empty values (captured) or raises, then set and get run.
\* A call whose capture raised changes nothing and is left out here.
CMEnsureCall ==
    /\ server = "credential_manager"
    /\ LET g == CMGet(memory, env)
       IN  IF ~NeedsCapture(g)
           THEN /\ ret' = [kind |-> "ensure", espn_s2 |-> Or(g.espn_s2, <<>>),
                           swid |-> Or(g.swid, <<>>), is_valid |-> g.is_valid,
                           captured |-> None, persist_mode |-> "none",
                           raised |-> FALSE]
                /\ UNCHANGED <<memory, env, dotenv>>
           ELSE \E new_espn_s2 \in Tokens, new_swid \in Tokens,
                   persist_mode \in PersistModes,
                   readOk \in BOOLEAN, writeOk \in BOOLEAN :
                  /\ (persist_mode # "dot_env" \/ dotenv = NoFile) => readOk
                  /\ persist_mode # "dot_env" => writeOk
                  /\ LET r  == CMSet(memory, env, dotenv, new_espn_s2, new_swid,
                                     persist_mode, readOk, writeOk)
                         g2 == CMGet(r.memory, r.env)
                     IN  /\ memory' = r.memory
                         /\ env' = r.env
                         /\ dotenv' = r.dotenv
                         /\ ret' = [kind |-> "ensure",
                                    espn_s2 |-> IF r.raised THEN None
                                                ELSE Or(g2.espn_s2, <<>>),
                                    swid |-> IF r.raised THEN None
                                             ELSE Or(g2.swid, <<>>),
                                    is_valid |-> ~r.raised /\ g2.is_valid,
                                    captured |-> <<new_espn_s2, new_swid>>,
                                    persist_mode |-> persist_mode,
                                    raised |-> r.raised]
    /\ UNCHANGED <<server, locked, waiters, task, cache, last_creds, leagues,
                   credentials, session_to_league_keys, built, stderr, hist>>

NextCM ==
    \/ CMGetCall
    \/ CMSetCall
    \/ CMEnsureCall

SpecCM == InitCM /\ [][NextCM]_vars

-----------------------------------------------------------------------------
(* auth.py: mask_secret on its own *)

MaskChars == {"a", "*"}

\* the strings of MaskChars of length n
RECURSIVE Strings(_)
Strings(n) ==
    IF n = 0 THEN {<<>>}
    ELSE {Append(w, c) : w \in Strings(n - 1), c \in MaskChars}

\* Optional[str]: None, or a string of at most MaxLen characters
MaskInputs == {None} \cup UNION {Strings(n) : n \in 0..MaxLen}

InitMask ==
    /\ server = "mask_secret"
    /\ env = EnvUnset
    /\ dotenv = NoFile
    /\ memory = MemoryInit
    /\ ret = NoRet
    /\ Quiet

\* mask_secret(value) returned
MaskCall ==
    /\ server = "mask_secret"
    /\ \E value \in MaskInputs :
         ret' = [kind |-> "mask_secret", value |-> value, masked |-> mask_secret(value)]
    /\ UNCHANGED <<server, env, memory, dotenv, locked, waiters, task, cache,
                   last_creds, leagues, credentials, session_to_league_keys, built,
                   stderr, hist>>

NextMask == MaskCall

SpecMask == InitMask /\ [][NextMask]_vars

-----------------------------------------------------------------------------
(* espn_fantasy_server.py: _resolve_session_id, _extract_http_status,
   _classify_error, _error_json; tools.py: the except clauses of the tools and
   the team_id check.  Functions of their arguments and of os.environ. *)

\* t occurs in s as a run of consecutive characters: t in s
In(t, s) == \E i \in 0..(Len(s) - Len(t)) : SubSeq(s, i + 1, i + Len(t)) = t

\* str.lower(), for the letters the texts below are written with
LowerChar(c) ==
    CASE c = "P" -> "p" [] c = "F" -> "f" [] c = "N" -> "n" [] c = "U" -> "u"
      [] OTHER -> c
Lower(s) == [i \in 1..Len(s) |-> LowerChar(s[i])]

\* a mutant of Strip: nothing is stripped
StripNothing(s) == s

\* str.strip() for the whitespace character " "
RECURSIVE Strip(_)
Strip(s) ==
    IF s = <<>> THEN s
    ELSE IF Head(s) = " " THEN Strip(Tail(s))
    ELSE IF s[Len(s)] = " " THEN Strip(SubSeq(s, 1, Len(s) - 1))
    ELSE s

DefaultSession ==
    <<"d", "e", "f", "a", "u", "l", "t", "_", "s", "e", "s", "s", "i", "o", "n">>

SessionEnvNames == {"MCP_SESSION_ID", "SESSION_ID"}

\* _resolve_session_id(session_id) with os.environ = e
resolve_session_id(session_id, e) ==
    LET sid == Strip(Or(session_id, <<>>))
    IN  IF Truthy(sid) THEN sid
        ELSE Or(e["MCP_SESSION_ID"], Or(e["SESSION_ID"], DefaultSession))

\* An attribute of an exception object: absent (or None), an int, or a value
\* that is no int (the string "401", say)
Absent == [is_int |-> FALSE, v |-> 0]
IntAttr(n) == [is_int |-> TRUE, v |-> n]
NonInt == [is_int |-> FALSE, v |-> 401]

\* _extract_http_status(exc): exc.response.status_code, exc.status_code,
\* exc.status, the first that is an int; None when none is.  None is 0 here.
NoStatus == 0
extract_http_status(exc) ==
    IF exc.response_status_code.is_int THEN exc.response_status_code.v
    ELSE IF exc.status_code.is_int THEN exc.status_code.v
    ELSE IF exc.status.is_int THEN exc.status.v
    ELSE NoStatus

WordPrivate == <<"p", "r", "i", "v", "a", "t", "e">>
WordPrivateCap == <<"P", "r", "i", "v", "a", "t", "e">>
WordUnauthorized == <<"u", "n", "a", "u", "t", "h", "o", "r", "i", "z", "e", "d">>
WordForbidden == <<"f", "o", "r", "b", "i", "d", "d", "e", "n">>
WordNotFound == <<"n", "o", "t", " ", "f", "o", "u", "n", "d">>
Word401 == <<"4", "0", "1">>

\* _classify_error: code == 401 or "private" in text or "unauthorized" in text
\* or "forbidden" in text
IsAuthError(code, text) ==
    \/ code = 401
    \/ In(WordPrivate, text)
    \/ In(WordUnauthorized, text)
    \/ In(WordForbidden, text)

\* _classify_error(exc); suggestion: whether the text of the suggestion is
\* there (None otherwise)
classify_error(exc) ==
    LET code == extract_http_status(exc)
        text == Lower(exc.text)
    IN  IF IsAuthError(code, text)
        THEN [category |-> "auth", status_code |-> code, suggestion |-> TRUE]
        ELSE IF code = 404 \/ In(WordNotFound, text)
        THEN [category |-> "not_found", status_code |-> code, suggestion |-> FALSE]
        ELSE [category |-> "runtime", status_code |-> code, suggestion |-> FALSE]

\* _error_json(context, exc): the payload; the key "suggestion" is there only
\* when the classification carries one
error_json(context, exc) ==
    LET info == classify_error(exc)
    IN  [error |-> TRUE, context |-> context, category |-> info.category,
         status_code |-> info.status_code, message |-> exc.text,
         suggestion |-> info.suggestion]

\* the except clause of a tool of the modular server, e being the exception:
\* what the tool returns.  authenticate returns "Authentication error: ...";
\* a data tool returns the advice to run authenticate when "401" or
\* "Private" is in str(e), else "Error retrieving ...: ...".
tool_except(op, exc) ==
    IF op = "authenticate"
    THEN [error |-> TRUE, context |-> op, message |-> exc.text, suggestion |-> FALSE]
    ELSE [error |-> TRUE, context |-> op, message |-> exc.text,
          suggestion |-> In(Word401, exc.text) \/ In(WordPrivateCap, exc.text)]

\* a mutant of InvalidTeamId: only the upper end is checked
InvalidTeamIdAbove(team_id, n) == team_id > n

\* team_id < 1 or team_id > len(league.teams)
InvalidTeamId(team_id, n) == team_id < 1 \/ team_id > n

NoTeam == "none"

\* seq[i] of Python: from 0, a negative i counts from the end
PyIndex(seq, i) ==
    IF i >= 0 /\ i < Len(seq) THEN seq[i + 1]
    ELSE IF i < 0 /\ 0 - i <= Len(seq) THEN seq[Len(seq) + i + 1]
    ELSE "IndexError"

\* get_team_roster, get_team_info: the check and league.teams[team_id - 1];
\* invalid is the tool returning "Invalid team_id. Must be between 1 and ..."
team_lookup(teams, team_id) ==
    IF InvalidTeamId(team_id, Len(teams))
    THEN [invalid |-> TRUE, team |-> NoTeam]
    ELSE [invalid |-> FALSE, team |-> PyIndex(teams, team_id - 1)]

\* the texts str(e) is drawn from
ExcTexts ==
    { <<>>,
      <<"x">>,
      Word401,
      WordPrivateCap,
      WordPrivate,
      <<"F", "o", "r", "b", "i", "d", "d", "e", "n">>,
      <<"U", "n", "a", "u", "t", "h", "o", "r", "i", "z", "e", "d">>,
      <<"N", "o", "t", " ", "f", "o", "u", "n", "d">>,
      WordPrivate \o <<" ">> \o WordNotFound }

\* the exceptions a tool is drawn to catch
Excs ==
    [response_status_code : {Absent, IntAttr(401), IntAttr(403), IntAttr(404), NonInt},
     status_code : {Absent, IntAttr(401), IntAttr(403), IntAttr(404), NonInt},
     status : {Absent, IntAttr(401), IntAttr(404)},
     text : ExcTexts]

\* the session_id arguments and the values of the two environment variables
SessionArgs ==
    {None, <<>>, <<" ">>, <<"a">>, <<" ", "a">>, <<"a", " ">>,
     <<" ", "a", " ", "b", " ">>}
SessionEnvValues == {None, <<>>, <<" ">>, <<"m">>}

TeamNames == <<"t1", "t2", "t3", "t4">>
TeamsOf(n) == SubSeq(TeamNames, 1, n)

ToolOps == {"authenticate", "get_league_info", "get_team_roster"}

\* a call in flight: the function a task is in and its locals.  A tool that
\* is in its except clause holds the exception it caught.
FnCalls ==
    [pc : {"resolve"}, session_id : SessionArgs]
    \cup [pc : {"except"}, exc : Excs]
    \cup [pc : {"team_check"}, teams : {TeamsOf(n) : n \in 0..MaxTeams},
          team_id : (0 - 1)..(MaxTeams + 1)]

\* one call in flight in task 1, with any arguments and any environment
InitFn ==
    /\ server = "functions"
    /\ env \in [SessionEnvNames -> SessionEnvValues]
    /\ dotenv = NoFile
    /\ memory = MemoryInit
    /\ ret = NoRet
    /\ \E call \in FnCalls : task = [p \in Tasks |-> IF p = 1 THEN call ELSE IdleTask]
    /\ locked = FALSE
    /\ waiters = <<>>
    /\ cache = EmptyDict
    /\ last_creds = None
    /\ leagues = EmptyDict
    /\ credentials = EmptyDict
    /\ session_to_league_keys = EmptyDict
    /\ built = 0
    /\ stderr = NotRead
    /\ hist = HistInit

\* the call of task p returned
FnReturn(p) ==
    /\ task' = [task EXCEPT ![p] = IdleTask]
    /\ UNCHANGED <<server, env, memory, dotenv, locked, waiters, cache,
                   last_creds, leagues, credentials, session_to_league_keys, built,
                   stderr, hist>>

\* _resolve_session_id(session_id) returned
ResolveCall(p) ==
    /\ server = "functions"
    /\ task[p].pc = "resolve"
    /\ ret' = [kind |-> "resolve", session_id |-> task[p].session_id,
               result |-> resolve_session_id(task[p].session_id, env)]
    /\ FnReturn(p)

\* _classify_error(exc) returned
ClassifyCall(p) ==
    /\ server = "functions"
    /\ task[p].pc = "except"
    /\ ret' = [kind |-> "classify", exc |-> task[p].exc,
               info |-> classify_error(task[p].exc)]
    /\ FnReturn(p)

\* a tool of the single-file server returned from its except clause
SFToolFailed(p) ==
    /\ server = "functions"
    /\ task[p].pc = "except"
    /\ \E op \in ToolOps :
         ret' = [kind |-> "tool_error", variant |-> "single_file", op |-> op,
                 exc |-> task[p].exc, response |-> error_json(op, task[p].exc)]
    /\ FnReturn(p)

\* a tool of the modular server returned from its except clause
ToolFailed(p) ==
    /\ server = "functions"
    /\ task[p].pc = "except"
    /\ \E op \in ToolOps :
         ret' = [kind |-> "tool_error", variant |-> "modular", op |-> op,
                 exc |-> task[p].exc, response |-> tool_except(op, task[p].exc)]
    /\ FnReturn(p)

\* get_team_roster or get_team_info passed the team_id check or returned at it
TeamCall(p) ==
    /\ server = "functions"
    /\ task[p].pc = "team_check"
    /\ ret' = [kind |-> "team", teams |-> task[p].teams, team_id |-> task[p].team_id,
               out |-> team_lookup(task[p].teams, task[p].team_id)]
    /\ FnReturn(p)

NextFn ==
    \E p \in Tasks :
        \/ ResolveCall(p)
        \/ ClassifyCall(p)
        \/ SFToolFailed(p)
        \/ ToolFailed(p)
        \/ TeamCall(p)

SpecFn == InitFn /\ [][NextFn]_vars

-----------------------------------------------------------------------------
(* Claims *)

\* the positions between taking _auth_lock and releasing it
LockPcs == {"have_lock", "launched", "polling", "closing", "stopping"}

\* the tasks queued on _auth_lock
Queued == {waiters[i] : i \in 1..Len(waiters)}

\* the pair stored for a session of the single-file server
CredsOf(S) ==
    IF S \in DOMAIN credentials
    THEN <<credentials[S].espn_s2, credentials[S].swid>>
    ELSE <<None, None>>

\* what the single-file server holds for session S: its credentials, its key
\* index and the leagues cached under it
SessionView(S) ==
    [credentials |-> IF S \in DOMAIN credentials THEN {credentials[S]} ELSE {},
     index       |-> IF S \in DOMAIN session_to_league_keys
                     THEN {session_to_league_keys[S]} ELSE {},
     leagues     |-> {<<k, leagues[k]>> : k \in {x \in DOMAIN leagues : leagues[x].by = S}}]

\* this step is a tool call made and finished at once
CallStep == hist'.calls = hist.calls + 1 /\ task' = task

\* this step ends an authenticate call of the single-file server by
\* store_credentials(S, ...)
StoreStep(S) ==
    /\ \E p \in Tasks : task[p].pc \in {"sf_closing", "sf_stopping"} /\ task'[p].pc = "idle"
    /\ ret'.kind = "returned" /\ ret'.session = S

\* this step is logout: clear_credentials(S)
ClearStep(S) ==
    /\ CallStep
    /\ hist'.event = [name |-> "clear_credentials", session |-> S]

\* C1: when several ensure_authenticated calls overlap while no valid
\* credentials are stored, one capture in all returns a pair, and every caller
\* is returned the same pair.
C1_OneCaptureSamePair ==
    server = "modular" =>
        /\ hist.captures <= 1
        /\ Cardinality(hist.returned) <= 1

\* C2: at most one authenticate_browser call is between the launch of Chromium
\* and the closing of the browser; whoever has a browser open holds _auth_lock,
\* at most one task is between acquiring and releasing it, and the others that
\* called wait in its queue.
C2_OneBrowserSession ==
    server = "modular" =>
        /\ Cardinality(InBrowser) <= 1
        /\ Cardinality({p \in Tasks : task[p].pc \in LockPcs}) <= 1
        /\ \A p \in Tasks : task[p].pc \in LockPcs => locked /\ p \notin Queued
        /\ \A p \in Tasks : task[p].browser = "open" => task[p].pc \in LockPcs
        /\ \A p \in Tasks : task[p].pc = "wait_lock" <=> p \in Queued

\* C2, witness: one task has its browser open while another waits for the lock
C2_Witness ==
    /\ server = "modular"
    /\ \E p, q \in Tasks : task[p].browser = "open" /\ task[q].pc = "wait_lock"

\* C3: in the single-file server no two authenticate calls have their capture
\* browsers open at the same time.
C3_OneCaptureSession ==
    server = "single_file" => Cardinality(InBrowser) <= 1

\* C4: a call made while CredentialManager.get reports is_valid returns in
\* that same step: no task starts waiting or opens a browser, _auth_lock, the
\* memory, the environment and the .env file are untouched, no capture is
\* made, and the pair returned is the stored pair.
C4_ValidReturnsAtOnce ==
    [][ (server = "modular" /\ hist'.calls = hist.calls + 1
          /\ CMGet(memory, env).is_valid)
        => /\ task' = task
           /\ locked' = locked /\ waiters' = waiters
           /\ memory' = memory /\ env' = env /\ dotenv' = dotenv
           /\ ret'.captured = None
           /\ ret'.kind = "returned" /\ ret'.handle = NoHandle
                => /\ ret'.espn_s2 = CMGet(memory, env).espn_s2
                   /\ ret'.swid = CMGet(memory, env).swid
                   /\ ret'.is_valid
           /\ ret'.kind = "returned" /\ ret'.handle # NoHandle /\ built' # built
                => /\ ret'.handle.espn_s2 = CMGet(memory, env).espn_s2
                   /\ ret'.handle.swid = CMGet(memory, env).swid ]_vars

\* C4, witness: ensure_authenticated has returned a stored pair without a capture
C4_Witness ==
    /\ server = "modular"
    /\ ret.kind = "returned" /\ ret.handle = NoHandle
    /\ ret.captured = None /\ ret.is_valid

\* C5: every league cached under a session was built with the pair now stored
\* for that session (with none when none is stored), and so was the handle the
\* last get_league returned.
C5_CachedBuiltWithCurrent ==
    server = "single_file" =>
        /\ \A k \in DOMAIN leagues :
             <<leagues[k].espn_s2, leagues[k].swid>> = CredsOf(leagues[k].by)
        /\ \A S \in Sessions, l \in LeagueIds, y \in Years :
             CacheKey(S, l, y) \in DOMAIN leagues =>
                LET h == leagues[CacheKey(S, l, y)]
                IN  <<h.espn_s2, h.swid>> = CredsOf(S)
        /\ ret.handle # NoHandle =>
             <<ret.handle.espn_s2, ret.handle.swid>> = CredsOf(ret.session)

\* C5, witness: get_league returned a handle built with a stored pair, and it
\* is not the first league built
C5_Witness ==
    /\ server = "single_file"
    /\ ret.handle # NoHandle /\ ret.handle.id >= 2
    /\ ret.session \in DOMAIN credentials
    /\ Truthy(ret.handle.espn_s2)

\* C6: the first LeagueService.get_league after a CredentialManager.set(a, b)
\* that changed the pair in effect returns no handle built before that set,
\* and the handle it returns was built with (a, b).
C6_RotationServesNewPair ==
    (server = "modular" /\ ret.after_set.pending /\ ret.handle # NoHandle) =>
        /\ ret.handle.id > ret.after_set.before
        /\ ret.handle.espn_s2 = ret.after_set.espn_s2
        /\ ret.handle.swid = ret.after_set.swid

\* C7: store_credentials(S, ...) and clear_credentials(S) leave the
\* credentials, the cached leagues and the key index of every other session
\* as they were.
C7_OtherSessionsUntouched ==
    [][ \A S \in Sessions, S2 \in Sessions :
          (server = "single_file" /\ S2 # S /\ (StoreStep(S) \/ ClearStep(S)))
          => SessionView(S2)' = SessionView(S2) ]_vars

\* C7, witness: store_credentials or clear_credentials ran for one session
\* while a league is cached under another
C7_Witness ==
    /\ server = "single_file"
    /\ hist.event.name \in {"store_credentials", "clear_credentials"}
    /\ \E k \in DOMAIN leagues : leagues[k].by # hist.event.session

\* C8: as long as the credentials do not change and nothing is purged, a
\* cached league is never built again: an entry that stays is the same
\* instance, a get_league for a cached key returns that instance, and the
\* constructor runs only for a key that was not cached.
C8_CacheHitSameInstance ==
    [][ /\ server = "modular" =>
             /\ last_creds' = last_creds =>
                  \A k \in DOMAIN cache : k \in DOMAIN cache' /\ cache'[k] = cache[k]
             /\ (built' # built /\ last_creds' = last_creds) =>
                  /\ built' = built + 1
                  /\ Cardinality(DOMAIN cache' \ DOMAIN cache) = 1
             /\ (ret'.handle # NoHandle /\ last_creds' = last_creds
                  /\ <<ret'.handle.league_id, ret'.handle.year>> \in DOMAIN cache) =>
                  ret'.handle = cache[<<ret'.handle.league_id, ret'.handle.year>>]
        /\ server = "single_file" =>
             /\ \A k \in DOMAIN leagues \cap DOMAIN leagues' : leagues'[k] = leagues[k]
             /\ built' # built =>
                  /\ built' = built + 1
                  /\ Cardinality(DOMAIN leagues' \ DOMAIN leagues) = 1
             /\ (ret'.handle # NoHandle /\ credentials' = credentials
                  /\ CacheKey(ret'.session, ret'.handle.league_id, ret'.handle.year)
                       \in DOMAIN leagues) =>
                  ret'.handle = leagues[CacheKey(ret'.session, ret'.handle.league_id,
                                                 ret'.handle.year)] ]_vars

\* C8, witness: LeagueService.get_league returned an instance older than the
\* newest one built: a cache hit
C8_Witness ==
    /\ server = "modular"
    /\ ret.handle # NoHandle /\ ret.handle.id < built

\* session ids, league ids and years whose keys could run into each other
KeyTriples ==
    (Sessions \cup {<<"a", "1">>, <<"a", ":", "1", ":", "1">>, <<"1">>})
        \X {1, 11, 0 - 1} \X {1, 11}

\* distinct triples have distinct cache keys
KeysDistinct ==
    \A t1 \in KeyTriples, t2 \in KeyTriples :
        CacheKey(t1[1], t1[2], t1[3]) = CacheKey(t2[1], t2[2], t2[3]) => t1 = t2

\* C9: a league cached under the key of (S, L, Y) was created by a call under
\* session S for league L and year Y, and get_league(S, ...) never returns a
\* handle created under another session; distinct (session, league, year)
\* triples never share a cache key.
C9_NoCrossSessionHandle ==
    server = "single_file" =>
        /\ \A S \in Sessions, l \in LeagueIds, y \in Years :
             CacheKey(S, l, y) \in DOMAIN leagues =>
                LET h == leagues[CacheKey(S, l, y)]
                IN  h.by = S /\ h.league_id = l /\ h.year = y
        /\ ret.handle # NoHandle => ret.handle.by = ret.session
        /\ KeysDistinct

\* C9, witness: two sessions hold a cached league for the same league and year
C9_Witness ==
    /\ server = "single_file"
    /\ \E l \in LeagueIds, y \in Years :
         \A S \in Sessions : CacheKey(S, l, y) \in DOMAIN leagues

\* C10: after CredentialManager.set(a, b), get returns exactly (a, b) with
\* is_valid = true.
C10_SetThenGet ==
    hist.last_set.pending =>
        LET g == CMGet(memory, env)
        IN  /\ g.espn_s2 = hist.last_set.espn_s2
            /\ g.swid = hist.last_set.swid
            /\ g.is_valid

\* C11: CredentialManager.get reports is_valid exactly when both tokens it
\* returns are non-empty strings; with either of them empty or None is_valid
\* is false, whatever the other is.
C11_ValidIffBoth ==
    ret.kind = "get" =>
        /\ ret.is_valid <=> (ret.espn_s2 \notin {None, <<>>} /\ ret.swid \notin {None, <<>>})
        /\ ret.espn_s2 \in {None, <<>>} => ~ret.is_valid
        /\ ret.swid \in {None, <<>>} => ~ret.is_valid

\* C11, witness: get returned one token and not the other
C11_Witness ==
    /\ ret.kind = "get"
    /\ ret.swid \in Tokens /\ ret.espn_s2 \in {None, <<>>}
    /\ ~ret.is_valid

\* what os.environ holds for the two tokens, aliases included
EnvPair == <<Or(env["ESPN_S2"], env["espn_s2"]), Or(env["SWID"], env["swid"])>>

\* C12: the source get reports is "process_env" exactly when the pair it
\* returns is valid and is the pair the process environment holds, "none"
\* exactly when the pair is not valid, and "dot_env" only when a returned token
\* is one held in memory.
C12_SourceTellsOrigin ==
    ret.kind = "get" =>
        /\ ret.source = "process_env" <=>
              (ret.is_valid /\ <<ret.espn_s2, ret.swid>> = EnvPair)
        /\ ret.source = "none" <=> ~ret.is_valid
        /\ ret.source = "dot_env" =>
              \/ (Truthy(DictGet(memory, "ESPN_S2")) /\ ret.espn_s2 = memory["ESPN_S2"])
              \/ (Truthy(DictGet(memory, "SWID")) /\ ret.swid = memory["SWID"])

\* C13: mask_secret returns a string as long as its input; for an input of at
\* most 4 characters every character of it is the mask character, for a longer
\* one the last 4 characters are those of the input and all before them are
\* the mask character.
C13_MaskKeepsLastFour ==
    (ret.kind = "mask_secret" /\ ret.value # None) =>
        LET n == Len(ret.value)
        IN  /\ Len(ret.masked) = n
            /\ n <= 4 => \A i \in 1..n : ret.masked[i] = "*"
            /\ n > 4 => /\ \A i \in 1..(n - 4) : ret.masked[i] = "*"
                        /\ \A i \in (n - 3)..n : ret.masked[i] = ret.value[i]

\* C13, witness: a string of more than 4 characters with a character other
\* than the mask character among its first ones and among its last 4
C13_Witness ==
    /\ ret.kind = "mask_secret" /\ ret.value # None
    /\ Len(ret.value) > 4
    /\ ret.value[1] = "a" /\ ret.value[Len(ret.value)] = "a"

\* t occurs in s as a run of consecutive characters
Contains(s, t) ==
    \E i \in 0..(Len(s) - Len(t)) : SubSeq(s, i + 1, i + Len(t)) = t

\* the parts of the messages on stderr that satisfy Where
LoggedParts(Where(_)) ==
    {part \in UNION {{m[i] : i \in 1..Len(m)} : m \in stderr} : Where(part)}

FromAnywhere(part) == TRUE
FromCode(part) == part.from = "code"

\* C14: no message written to stderr by credential lookup, credential
\* storage, browser capture or the tools contains a raw token value.
\* Violated: a tool that fails in League(...) writes str(e) of the
\* constructor's exception, and that text may repeat the espn_s2 and swid the
\* constructor was given.
C14_NoRawTokenLogged ==
    \A part \in LoggedParts(FromAnywhere) :
       \A t \in Tokens : ~Contains(part.value, t)

\* C14, the part that holds: what this code itself puts into a message
\* (ids, years, session ids, counts) is never a token
C14_OwnPartsClean ==
    \A part \in LoggedParts(FromCode) :
       \A t \in Tokens : ~Contains(part.value, t)

\* C15: set with persist_mode "memory" leaves os.environ and the .env file as
\* they were, with "env" it leaves the .env file as it was, and the file
\* changes only in a set with "dot_env".
C15_PersistModeFrame ==
    [][ (ret'.kind = "set" /\ ret' # ret) =>
          /\ ret'.persist_mode = "memory" => env' = env /\ dotenv' = dotenv
          /\ ret'.persist_mode = "env" => dotenv' = dotenv
          /\ dotenv' # dotenv => ret'.persist_mode = "dot_env" ]_vars

\* C15, witness: a set with "memory" has returned while the environment holds
\* another SWID than the one set
C15_Witness ==
    /\ ret.kind = "set" /\ ret.persist_mode = "memory"
    /\ env["SWID"] # ret.swid /\ memory["SWID"] = ret.swid

\* the lines of a file that begin with key=
KeyLines(lines, key) == {i \in 1..Len(lines) : StartsWith(lines[i], key \o <<"=">>)}

\* C16: _write_dotenv on an existing file keeps every line that starts with
\* neither ESPN_S2= nor SWID= where it was, puts the new key line where a key
\* line was, appends one only for a key the file did not have, and ends the
\* file with a newline.
C16_UpsertKeepsFile ==
    (ret.kind = "set" /\ ret.persist_mode = "dot_env" /\ ~ret.raised
       /\ ret.before # NoFile) =>
        LET old == SplitLines(ret.before)
            new == SplitLines(dotenv)
            missing == Cardinality({k \in {KeyS2, KeySWID} : KeyLines(old, k) = {}})
        IN  /\ Len(new) = Len(old) + missing
            /\ \A i \in 1..Len(old) :
                 IF i \in KeyLines(old, KeyS2) THEN new[i] = KeyS2 \o <<"=">> \o ret.espn_s2
                 ELSE IF i \in KeyLines(old, KeySWID)
                      THEN new[i] = KeySWID \o <<"=">> \o ret.swid
                 ELSE new[i] = old[i]
            /\ \A k \in {KeyS2, KeySWID} :
                 KeyLines(old, k) # {} =>
                    Cardinality(KeyLines(new, k)) = Cardinality(KeyLines(old, k))
            /\ dotenv # <<>> /\ dotenv[Len(dotenv)] = NL

\* C16 for a file that could be read
C16_ReadableFileKept ==
    ret.kind = "set" /\ ret.readOk => C16_UpsertKeepsFile

\* C17: when the polling loop of authenticate_browser has ended without an
\* error, the function raises TimeoutError unless both an espn_s2 and a SWID
\* cookie have been seen non-empty (one of the two is not enough), and
\* otherwise returns the first non-empty values seen for the two cookies.
C17_TimeoutOrFirstSeen ==
    [][ \A p \in Tasks :
          /\ (task[p].pc = "closing" /\ task'[p].pc = "stopping" /\ task[p].exc = "none")
             => IF Both(task[p].seen)
                THEN /\ task'[p].exc = "none"
                     /\ <<task'[p].espn_s2, task'[p].swid>> = task[p].seen
                ELSE task'[p].exc = "TimeoutError"
          /\ (task[p].pc = "stopping" /\ task'[p].pc = "idle")
             => IF task[p].exc = "none"
                THEN ret'.kind = "returned" => ret'.captured = task[p].seen
                ELSE ret' = RetRaised(task[p].exc) ]_vars

\* C17, witness: authenticate_browser is raising TimeoutError after it saw one
\* of the two cookies only
C17_Witness ==
    \E p \in Tasks :
        /\ task[p].pc = "stopping" /\ task[p].exc = "TimeoutError"
        /\ task[p].seen[1] \in Tokens /\ task[p].seen[2] = None

\* C18: when authenticate_browser leaves async_playwright() after Chromium was
\* launched, by return or by an exception, browser.close() has run.
C18_BrowserClosedOnExit ==
    \A p \in Tasks : task[p].pc = "stopping" => task[p].browser # "open"

\* C19: a capture that fails inside ensure_authenticated raises its exception
\* to the caller, leaves _auth_lock unlocked, and leaves the memory of the
\* CredentialManager, os.environ and the .env file as they were; they change
\* only at the end of a capture that succeeded.
C19_FailedCaptureLeavesStore ==
    [][ /\ \A p \in Tasks :
             (task[p].pc = "stopping" /\ task[p].exc # "none" /\ task'[p].pc = "idle")
             => /\ ret' = RetRaised(task[p].exc)
                /\ ~locked'
                /\ memory' = memory /\ env' = env /\ dotenv' = dotenv
        /\ (memory' # memory \/ env' # env \/ dotenv' # dotenv)
             => \E p \in Tasks : /\ task[p].pc = "stopping" /\ task[p].exc = "none"
                                 /\ task'[p].pc = "idle" ]_vars

\* C19, witness: another caller holds the lock after a capture that held it
\* raised TimeoutError
C19_Witness ==
    /\ server = "modular"
    /\ ret.kind = "raised" /\ ret.exc = "TimeoutError"
    /\ hist.calls >= 2
    /\ \E p \in Tasks : task[p].pc = "have_lock"

\* C20: after logout(S) session S has no credentials, no cached league and no
\* key index, and a get_league(S, ...) that comes next hands out no league
\* built without a new authentication.
C20_LogoutThenFreshAuth ==
    server = "single_file" =>
        /\ hist.event.name = "clear_credentials" =>
             LET S == hist.event.session
             IN  /\ S \notin DOMAIN credentials
                 /\ S \notin DOMAIN session_to_league_keys
                 /\ \A k \in DOMAIN leagues : leagues[k].by # S
        /\ ret.after_logout => ret.handle = NoHandle

\* this step is a get_league call of the single-file server
SFGetLeagueStep == CallStep /\ hist'.event.name = "get_league"

\* C21: a get_league read destroys no cache entry whose owning credentials
\* are unchanged.  ESPNFantasyFootballAPI.get_league removes and replaces no
\* entry at all; a step of LeagueService.get_league that loses an entry is one
\* whose pair from ensure_authenticated differs from the remembered pair.
C21_ReadKeepsEntries ==
    [][ /\ (server = "single_file" /\ SFGetLeagueStep) =>
             /\ \A k \in DOMAIN leagues : k \in DOMAIN leagues' /\ leagues'[k] = leagues[k]
             /\ credentials' = credentials
        /\ (server = "modular"
              /\ \E k \in DOMAIN cache : k \notin DOMAIN cache' \/ cache'[k] # cache[k]) =>
             /\ last_creds # None
             /\ last_creds' # last_creds ]_vars

\* C21, witness: a get_league added a second entry next to one that stayed,
\* in either server
C21_Witness ==
    \/ server = "modular" /\ Cardinality(DOMAIN cache) >= 2
                          /\ ret.handle # NoHandle /\ ret.handle.id = built
    \/ server = "single_file" /\ Cardinality(DOMAIN leagues) >= 2
                              /\ ret.handle # NoHandle /\ ret.handle.id = built

\* the pair ensure_authenticated returns from the store as it is now:
\* espn_s2 or "", swid or ""
EnsuredPair ==
    LET g == CMGet(memory, env)
    IN  <<Or(g.espn_s2, <<>>), Or(g.swid, <<>>)>>

\* every entry of LeagueService._cache was built with _last_creds
CacheBuiltWithLast ==
    \A k \in DOMAIN cache :
       last_creds # None /\ <<cache[k].espn_s2, cache[k].swid>> = last_creds

\* C25: every handle LeagueService.get_league returns was built with the pair
\* ensure_authenticated returned in that call; all entries of _cache were
\* built with _last_creds; and a call whose pair differs from _last_creds
\* leaves no older entry behind, also when its League construction fails.
C25_HandleBuiltWithEnsuredPair ==
    [][ server = "modular" =>
          /\ CacheBuiltWithLast'
          /\ last_creds' # last_creds => last_creds' = EnsuredPair'
          /\ (ret' # ret /\ ret'.handle # NoHandle) =>
                /\ <<ret'.handle.espn_s2, ret'.handle.swid>> = EnsuredPair'
                /\ last_creds' = EnsuredPair'
          /\ (last_creds # None /\ last_creds' # last_creds) =>
                \A k \in DOMAIN cache' : cache'[k].id > built ]_vars

\* C25, witness: a get_league returned a handle after a second capture had
\* changed the pair, while an entry built with the first pair was cached
C25_Witness ==
    /\ server = "modular"
    /\ ret.handle # NoHandle /\ ret.handle.id >= 2
    /\ ret.after_set.pending
    /\ <<ret.handle.espn_s2, ret.handle.swid>> = last_creds

\* C27: when the capture of the single-file authenticate tool fails (timeout,
\* a missing or empty cookie, a browser error), the tool returns the failure
\* message and the credentials, the cached leagues and the key index of every
\* session stay as they were; store_credentials only ever stores a pair of
\* two non-empty tokens.
C27_FailedCaptureStoresNothing ==
    [][ server = "single_file" =>
          /\ \A p \in Tasks :
               (task[p].pc \in {"sf_closing", "sf_stopping"} /\ task'[p].pc = "idle"
                  /\ (\/ task[p].exc # "none"
                      \/ ~Truthy(task[p].espn_s2)
                      \/ ~Truthy(task[p].swid)))
               => /\ ret' = RetRaised("Authentication failed")
                  /\ credentials' = credentials
                  /\ leagues' = leagues
                  /\ session_to_league_keys' = session_to_league_keys
          /\ \A S \in DOMAIN credentials' :
               (S \notin DOMAIN credentials \/ credentials'[S] # credentials[S])
               => Truthy(credentials'[S].espn_s2) /\ Truthy(credentials'[S].swid) ]_vars

\* C27, witness: an authenticate call has just failed while credentials and
\* a cached league were held
C27_Witness ==
    /\ server = "single_file"
    /\ ret = RetRaised("Authentication failed")
    /\ credentials # EmptyDict
    /\ leagues # EmptyDict
    /\ \A p \in Tasks : task[p].pc = "idle"

\* the keys indexed under some session
IndexedKeys == UNION {session_to_league_keys[S] : S \in DOMAIN session_to_league_keys}

\* C28: after any sequence of get_league, store_credentials and
\* clear_credentials calls, failed League constructions included, the keys of
\* ESPNFantasyFootballAPI.leagues are the union of the key sets in
\* session_to_league_keys, each key indexed under the session that created
\* its entry; so a purge of session S leaves no entry created under S.
C28_IndexCoversLeagues ==
    [][ server = "single_file" =>
          /\ DOMAIN leagues' = IndexedKeys'
          /\ \A S \in DOMAIN session_to_league_keys' :
               \A k \in session_to_league_keys'[S] : leagues'[k].by = S
          /\ \A S \in Sessions :
               (StoreStep(S) \/ ClearStep(S)) =>
                  \A k \in DOMAIN leagues' : leagues'[k].by # S ]_vars

\* C28, witness: two leagues are cached and indexed under one session
C28_Witness ==
    /\ server = "single_file"
    /\ \E S \in DOMAIN session_to_league_keys :
          Cardinality(session_to_league_keys[S]) >= 2

\* C26: whenever ensure_authenticated returns rather than raises, the state
\* it returns has is_valid = true, both returned tokens are non-empty, and
\* after a capture that yielded (a, b) the returned pair is (a, b), for every
\* persist_mode and every prior content of the process environment.
\* Violated: set stores espn_s2 under keys get does not read first.
C26_EnsureReturnsValidPair ==
    (ret.kind = "ensure" /\ ~ret.raised) =>
        /\ ret.is_valid
        /\ Truthy(ret.espn_s2) /\ Truthy(ret.swid)
        /\ ret.captured # None => <<ret.espn_s2, ret.swid>> = ret.captured

\* C26, the part that holds: without a capture the pair returned is valid,
\* and the SWID returned after a capture is the SWID captured
C26_NoCaptureOrSwid ==
    (ret.kind = "ensure" /\ ~ret.raised) =>
        /\ ret.captured = None => (ret.is_valid /\ Truthy(ret.espn_s2) /\ Truthy(ret.swid))
        /\ ret.captured # None => ret.swid = ret.captured[2]

\* C29: every ensure_authenticated call eventually returns or raises: a task
\* inside a call, waiting on _auth_lock or past it, is idle again later.
C29_EveryCallEnds ==
    \A p \in Tasks : (task[p].pc # "idle") ~> (task[p].pc = "idle")

\* C29, witness: a caller waits on _auth_lock while the holder's browser has
\* not yet been launched, and no further call can come
C29_Witness ==
    /\ server = "modular"
    /\ hist.calls = MaxCalls
    /\ \E p, q \in Tasks : task[p].pc = "wait_lock" /\ task[q].pc = "have_lock"

\* the text mentions word, in any case
Mentions(text, word) == Contains(Lower(text), word)

MentionsAuth(text) ==
    \/ Mentions(text, WordPrivate)
    \/ Mentions(text, WordUnauthorized)
    \/ Mentions(text, WordForbidden)

\* the category the claim gives an exception with HTTP status code and this
\* text, auth_codes being the statuses that make it "auth"
CategoryFor(code, text, auth_codes) ==
    IF code \in auth_codes \/ MentionsAuth(text) THEN "auth"
    ELSE IF code = 404 \/ Mentions(text, WordNotFound) THEN "not_found"
    ELSE "runtime"

\* C23: _classify_error gives "auth" to every exception that carries HTTP
\* status 401 or 403 or whose text mentions private, unauthorized or
\* forbidden, "not_found" to status 404 or a "not found" text that is not
\* auth, "runtime" to the rest; a suggestion goes with "auth" and with
\* nothing else.
C23_ClassifiesByStatusAndText ==
    ret.kind = "classify" =>
        /\ ret.info.category =
               CategoryFor(extract_http_status(ret.exc), ret.exc.text, {401, 403})
        /\ ret.info.suggestion <=> ret.info.category = "auth"

\* What does hold of _classify_error: the same with status 401 alone in the
\* place of "401 or 403".
C23_ClassifiesBy401AndText ==
    ret.kind = "classify" =>
        /\ ret.info.category =
               CategoryFor(extract_http_status(ret.exc), ret.exc.text, {401})
        /\ ret.info.suggestion <=> ret.info.category = "auth"

\* the failure is one of authentication: HTTP status 401, or a text that
\* speaks of a private league
AuthRelated(exc) ==
    extract_http_status(exc) = 401 \/ Mentions(exc.text, WordPrivate)

\* C22: a tool that catches an exception returns a response built from it,
\* and when the failure is auth-related (HTTP 401, private league) the
\* response of a data tool tells the user to run the authenticate tool.
C22_FailureBecomesResponse ==
    ret.kind = "tool_error" =>
        /\ ret.response.error
        /\ ret.response.message = ret.exc.text
        /\ (ret.op # "authenticate" /\ AuthRelated(ret.exc)) => ret.response.suggestion

\* What does hold in both servers: the exception becomes the response; and
\* in the single-file server every auth-related failure carries the
\* suggestion.
C22_SingleFileSuggests ==
    ret.kind = "tool_error" =>
        /\ ret.response.error
        /\ ret.response.message = ret.exc.text
        /\ (ret.variant = "single_file" /\ AuthRelated(ret.exc)) => ret.response.suggestion

RECURSIVE Spaces(_)
Spaces(n) == IF n <= 0 THEN <<>> ELSE <<" ">> \o Spaces(n - 1)

NonBlank(s) == s # None /\ \E i \in 1..Len(s) : s[i] # " "

\* r is s without the spaces at its two ends
IsStripped(r, s) ==
    /\ \E i \in 0..Len(s), j \in 0..Len(s) : s = Spaces(i) \o r \o Spaces(j)
    /\ r = <<>> \/ (r[1] # " " /\ r[Len(r)] # " ")

\* C24: _resolve_session_id returns the argument, stripped, when it is not
\* blank; else MCP_SESSION_ID when set and not empty; else SESSION_ID when set
\* and not empty; else "default_session".  It never returns an empty string.
\* The result is fixed by the argument and the environment, so two calls with
\* the same argument and environment return the same id.
C24_SessionIdResolved ==
    ret.kind = "resolve" =>
        /\ IF NonBlank(ret.session_id) THEN IsStripped(ret.result, ret.session_id)
           ELSE IF env["MCP_SESSION_ID"] \notin {None, <<>>}
                THEN ret.result = env["MCP_SESSION_ID"]
           ELSE IF env["SESSION_ID"] \notin {None, <<>>}
                THEN ret.result = env["SESSION_ID"]
           ELSE ret.result = DefaultSession
        /\ ret.result \notin {None, <<>>}

\* an argument with spaces at both ends and inside was resolved, with both
\* environment variables set
C24_Witness ==
    /\ ret.kind = "resolve"
    /\ ret.session_id = <<" ", "a", " ", "b", " ">>
    /\ ret.result = <<"a", " ", "b">>
    /\ env["MCP_SESSION_ID"] = <<"m">>
    /\ env["SESSION_ID"] = <<"m">>

\* C30: get_team_roster and get_team_info return the "Invalid team_id"
\* message and index no team when team_id < 1 or team_id > the number of
\* teams; otherwise they report the team at position team_id - 1 of
\* league.teams, which is the team_id-th team.
C30_TeamIdChecked ==
    ret.kind = "team" =>
        IF ret.team_id < 1 \/ ret.team_id > Len(ret.teams)
        THEN ret.out.invalid /\ ret.out.team = NoTeam
        ELSE ~ret.out.invalid /\ ret.out.team = ret.teams[ret.team_id]

\* team_id 0 was refused in a league that has teams, where teams[0 - 1]
\* would have been the last team
C30_Witness ==
    /\ ret.kind = "team"
    /\ ret.team_id = 0
    /\ ret.teams # <<>>
    /\ ret.out.invalid
    /\ PyIndex(ret.teams, ret.team_id - 1) = ret.teams[Len(ret.teams)]

====
